---- MODULE Spec2Model ----
(***************************************************************************)
(* Feedback-loop workflow of the multi-agent predictor: the LangGraph     *)
(* state machine of workflow/graph.py, its node functions                 *)
(* (workflow/nodes.py), the article merger and the feedback-context       *)
(* builder (workflow/state.py) and the confidence formula of the          *)
(* validation agent (agents/validation_agent.py).                         *)
(*                                                                         *)
(* Numbers: Python floats are modelled as exact rationals <<n, d>>        *)
(* (d > 0); the overall sentiment is an integer number of hundredths.     *)
(* The external collaborators (LLM, news API, crawler) are nondeterministic*)
(* choices over small sets of typed outputs, or a raised exception.       *)
(***************************************************************************)
EXTENDS Integers, Sequences, FiniteSets, TLC

VARIABLES
    \* ---- WorkflowState (workflow/state.py) and the graph position ----
    node,                 \* the graph node that runs next ("decide" = the conditional edge)
    iteration,
    max_iterations,
    iteration_contexts,
    keywords,
    articles,
    news_packs,
    analysis,
    validation,
    all_results,
    best_result,
    errors,
    has_critical_error,
    iteration_timestamps,
    crawled_articles,     \* the batch the last successful retrieval handed to merge_articles
    faults,               \* number of collaborator calls that raised so far
    final_result,         \* main.py: what run_workflow / process_results hand to the caller
    context,              \* keyword_node: the context the last call handed to KeywordAgent
    history_data,         \* file_handler.py: what save_iteration_history has written
    \* ---- one call of merge_articles(existing_articles, new_articles) ----
    existing_articles,
    new_articles,
    merged,
    \* ---- one evaluation of the confidence formula of ValidationAgent.validate ----
    source_score,
    consistency_score,
    recency_score,
    overall_sentiment,
    confidence,
    \* ---- shared by the two single-call specifications ----
    returned              \* TRUE once the function under check has returned

wfVars == <<node, iteration, max_iterations, iteration_contexts, keywords, articles,
            news_packs, analysis, validation, all_results, best_result, errors,
            has_critical_error, iteration_timestamps, crawled_articles, faults,
            final_result, context, history_data>>
mergeVars == <<existing_articles, new_articles, merged>>
evalVars == <<source_score, consistency_score, recency_score, overall_sentiment, confidence>>
vars == <<wfVars, mergeVars, evalVars, returned>>

(***************************************************************************)
(* Bounds of the model                                                     *)
(***************************************************************************)
MaxBudget == 2        \* max_iterations ranges over 1..MaxBudget
MaxLen == 2           \* longest list handed to merge_articles in MergeSpec
MaxFaults == 1        \* at most MaxFaults collaborator calls raise in one run
MaxItems == 10        \* most articles a single crawl returns in StageSpec
ScoreGrid == 4        \* sub-scores range over k/ScoreGrid, k in 0..ScoreGrid

(***************************************************************************)
(* Program constants                                                       *)
(***************************************************************************)
CONFIDENCE_THRESHOLD == 60
FALLBACK_CONFIDENCE == 20
SOURCE_WEIGHT == 40
CONSISTENCY_WEIGHT == 30
RECENCY_WEIGHT == 20
SENTIMENT_CAP == 10
SENTIMENT_FACTOR == 333          \* 3.33, in hundredths
DEFAULT_TRUST == 5               \* 0.5, in tenths
SIMPLE_PACK_LIMIT == 5
SIMPLE_PACK_RELEVANCE == 5       \* 0.5, in tenths
LOW_CONFIDENCE_LIMIT == 40
FEW_ARTICLES_LIMIT == 10

None == [none |-> TRUE]          \* Python's None
Pending == [pending |-> TRUE]    \* main.py has not got that far yet
END == "END"

(***************************************************************************)
(* Sequence helpers                                                        *)
(***************************************************************************)
SeqsUpTo(S, n) == UNION {[1..k -> S] : k \in 0..n}

RECURSIVE SumSeq(_)
SumSeq(s) == IF s = <<>> THEN 0 ELSE Head(s) + SumSeq(Tail(s))

(***************************************************************************)
(* Articles.  An article is a record; the "url" field may be missing       *)
(* (article.get("url") is then None) or the empty string.                  *)
(***************************************************************************)
\* faulty variant: an empty url string passes the `if url` test
HasUrl_field_present(article) == "url" \in DOMAIN article

\* `if url` for url = article.get("url")
HasUrl(article) == "url" \in DOMAIN article /\ article.url # ""

\* faulty variant: the loop stops at the first article it rejects
RECURSIVE MergeLoop_stop_at_reject(_, _, _)
MergeLoop_stop_at_reject(acc, existing_urls, rest) ==
    IF rest = <<>> THEN acc
    ELSE LET article == Head(rest) IN
         IF "url" \in DOMAIN article /\ article.url # "" /\ article.url \notin existing_urls
         THEN MergeLoop_stop_at_reject(Append(acc, article),
                                       existing_urls \cup {article.url}, Tail(rest))
         ELSE acc

\* merge_articles, the loop over new_articles with its running url set
RECURSIVE MergeLoop(_, _, _)
MergeLoop(acc, existing_urls, rest) ==
    IF rest = <<>> THEN acc
    ELSE LET article == Head(rest) IN
         IF HasUrl(article) /\ article.url \notin existing_urls
         THEN MergeLoop(Append(acc, article), existing_urls \cup {article.url}, Tail(rest))
         ELSE MergeLoop(acc, existing_urls, Tail(rest))

\* faulty variant: the new batch replaces the existing articles
merge_articles_new_only(existing, incoming) == MergeLoop(<<>>, {}, incoming)

\* faulty variant: the url set is not seeded from the existing articles
merge_articles_unseeded(existing, incoming) == MergeLoop(existing, {}, incoming)

merge_articles(existing, incoming) ==
    LET existing_urls == {existing[i].url : i \in {j \in DOMAIN existing : HasUrl(existing[j])}}
    IN  MergeLoop(existing, existing_urls, incoming)

(***************************************************************************)
(* Exact rational arithmetic for the float expressions of the evaluator    *)
(***************************************************************************)
Abs(x) == IF x < 0 THEN -x ELSE x
Min(a, b) == IF a <= b THEN a ELSE b

\* greatest common divisor of two naturals (Euclid)
GCD[a \in Nat, b \in Nat] == IF b = 0 THEN a ELSE GCD[b, a % b]

LCM(a, b) == (a \div GCD[a, b]) * b

\* a rational <<n, d>> in lowest terms, d > 0
Norm(q) == LET g == GCD[Abs(q[1]), q[2]] IN IF g = 0 THEN <<0, 1>> ELSE <<q[1] \div g, q[2] \div g>>

\* Python int(): truncation toward zero of the rational n/d
Trunc(n, d) == IF n >= 0 THEN n \div d ELSE -((-n) \div d)

(***************************************************************************)
(* ValidationAgent (agents/validation_agent.py)                            *)
(***************************************************************************)
\* trusted_sources, in dict order: name and weight in tenths
trusted_sources ==
    << [name |-> "reuters", weight |-> 10],
       [name |-> "bloomberg", weight |-> 10],
       [name |-> "wall street journal", weight |-> 10],
       [name |-> "financial times", weight |-> 9],
       [name |-> "associated press", weight |-> 9],
       [name |-> "cnbc", weight |-> 8],
       [name |-> "marketwatch", weight |-> 8],
       [name |-> "yahoo finance", weight |-> 7],
       [name |-> "investing.com", weight |-> 6] >>

\* `trusted in source.lower()` for the provenance labels the model uses
SourceContains(source, trusted) ==
    <<source, trusted>> \in { <<"Reuters", "reuters">>,
                              <<"CNBC", "cnbc">>,
                              <<"Yahoo Finance", "yahoo finance">> }

\* the inner loop of _calculate_source_quality: first matching entry wins, else 0.5
TrustWeight(source) ==
    LET hits == {i \in DOMAIN trusted_sources : SourceContains(source, trusted_sources[i].name)}
    IN  IF hits = {} THEN DEFAULT_TRUST
        ELSE trusted_sources[CHOOSE i \in hits : \A j \in hits : i <= j].weight

\* faulty variant: the empty-list guard is missing and the default weight is returned
_calculate_source_quality_default(arts) ==
    IF arts = <<>> THEN <<DEFAULT_TRUST, 10>>
    ELSE Norm(<<SumSeq([i \in DOMAIN arts |-> TrustWeight(arts[i].source)]), 10 * Len(arts)>>)

_calculate_source_quality(arts) ==
    IF arts = <<>> THEN <<0, 1>>
    ELSE Norm(<<SumSeq([i \in DOMAIN arts |-> TrustWeight(arts[i].source)]), 10 * Len(arts)>>)

\* faulty variant: the fixed score is given only to an empty pack list (< 1 for < 2)
_calculate_consistency_single(packs) ==
    IF Len(packs) < 1 THEN <<6, 10>>
    ELSE LET event_types == {packs[i].event_type : i \in DOMAIN packs}
             relevance_sum == SumSeq([i \in DOMAIN packs |-> packs[i].relevance_score])
         IN  Norm(<<30 * Cardinality(event_types) + 7 * relevance_sum, 100 * Len(packs)>>)

_calculate_consistency(packs) ==
    IF Len(packs) < 2 THEN <<6, 10>>
    ELSE LET event_types == {packs[i].event_type : i \in DOMAIN packs}
             relevance_sum == SumSeq([i \in DOMAIN packs |-> packs[i].relevance_score])
         IN  \* diversity * 0.3 + relevance * 0.7, relevance scores in tenths
             Norm(<<30 * Cardinality(event_types) + 7 * relevance_sum, 100 * Len(packs)>>)

\* publishedAt is [kind |-> "naive" | "aware", days_ago |-> n] for a parsable ISO
\* timestamp without / with a UTC offset, or [kind |-> "malformed"].  Subtracting
\* an offset-aware instant from the naive datetime.now() raises TypeError, which
\* the bare except swallows like a parse failure.
CountsAsRecent(article) ==
    /\ article.publishedAt.kind = "naive"
    /\ article.publishedAt.days_ago <= 7

_calculate_recency(arts) ==
    IF arts = <<>> THEN <<0, 1>>
    ELSE Norm(<<Cardinality({i \in DOMAIN arts : CountsAsRecent(arts[i])}), Len(arts)>>)

\* min(abs(overall_sentiment) * 3.33, 10), in units of 1/10000
SentimentContribution(sentiment) == Min(Abs(sentiment) * SENTIMENT_FACTOR, SENTIMENT_CAP * 10000)

\* faulty variant: round() in place of int()
CompositeConfidence_rounded(s, c, r, sentiment) ==
    LET L == LCM(LCM(s[2], c[2]), LCM(r[2], 10000))
        N == SOURCE_WEIGHT * s[1] * (L \div s[2])
             + CONSISTENCY_WEIGHT * c[1] * (L \div c[2])
             + RECENCY_WEIGHT * r[1] * (L \div r[2])
             + Min(Abs(sentiment) * SENTIMENT_FACTOR, SENTIMENT_CAP * 10000) * (L \div 10000)
    IN  Trunc(2 * N + L, 2 * L)

\* faulty variant: the sentiment term keeps its sign (no abs)
CompositeConfidence_signed(s, c, r, sentiment) ==
    LET L == LCM(LCM(s[2], c[2]), LCM(r[2], 10000))
        N == SOURCE_WEIGHT * s[1] * (L \div s[2])
             + CONSISTENCY_WEIGHT * c[1] * (L \div c[2])
             + RECENCY_WEIGHT * r[1] * (L \div r[2])
             + Min(sentiment * SENTIMENT_FACTOR, SENTIMENT_CAP * 10000) * (L \div 10000)
    IN  Trunc(N, L)

\* int(source*40 + consistency*30 + recency*20 + sentiment_contribution)
CompositeConfidence(s, c, r, sentiment) ==
    LET L == LCM(LCM(s[2], c[2]), LCM(r[2], 10000))
        N == SOURCE_WEIGHT * s[1] * (L \div s[2])
             + CONSISTENCY_WEIGHT * c[1] * (L \div c[2])
             + RECENCY_WEIGHT * r[1] * (L \div r[2])
             + SentimentContribution(sentiment) * (L \div 10000)
    IN  Trunc(N, L)

\* a fixed human-readable note
Note(text) == [text |-> text]

\* f"{score:.0%}": the score as a whole percentage, ties to even
Percent(q) ==
    LET n == 100 * q[1]
        whole == n \div q[2]
        rest == n % q[2]
    IN  IF 2 * rest > q[2] \/ (2 * rest = q[2] /\ whole % 2 = 1) THEN whole + 1 ELSE whole

\* faulty variant: every positive confidence counts as valid
ValidationResult_valid_if_positive(s, c, r, conf, contra_args) ==
    [ confidence |-> conf,
      is_valid |-> conf > 0,
      validation_notes |-> << [text |-> "source", pct |-> Percent(s)],
                              [text |-> "consistency", pct |-> Percent(c)],
                              [text |-> "recency", pct |-> Percent(r)] >>,
      contra_arguments |-> contra_args ]

\* the dict ValidationAgent.validate returns
ValidationResult(s, c, r, conf, contra_args) ==
    [ confidence |-> conf,
      is_valid |-> conf >= CONFIDENCE_THRESHOLD,
      validation_notes |-> << [text |-> "source", pct |-> Percent(s)],
                              [text |-> "consistency", pct |-> Percent(c)],
                              [text |-> "recency", pct |-> Percent(r)] >>,
      contra_arguments |-> contra_args ]

\* ValidationAgent.validate; contra_args is what _find_counter_arguments returned.
\* The sub-scores and the confidence are computed once and bound, as the local
\* variables of the method are.
validate(an, packs, arts, contra_args) ==
    CHOOSE result \in UNION {
        { ValidationResult(s, c, r, conf, contra_args) :
            conf \in {CompositeConfidence(s, c, r, an.overall_sentiment)} } :
        s \in {_calculate_source_quality(arts)},
        c \in {_calculate_consistency(packs)},
        r \in {_calculate_recency(arts)} } : TRUE

(***************************************************************************)
(* Outputs of the external collaborators                                   *)
(***************************************************************************)
Naive(days) == [kind |-> "naive", days_ago |-> days]
Aware(days) == [kind |-> "aware", days_ago |-> days]
Malformed == [kind |-> "malformed"]

ArticleU1 == [url |-> "u1", source |-> "Reuters", publishedAt |-> Naive(1)]
ArticleU1Copy == [url |-> "u1", source |-> "TechBlog", publishedAt |-> Aware(1)]
ArticleU2 == [url |-> "u2", source |-> "TechBlog", publishedAt |-> Naive(30)]
ArticleEmptyUrl == [url |-> "", source |-> "Reuters", publishedAt |-> Naive(1)]
ArticleNoUrl == [source |-> "CNBC", publishedAt |-> Malformed]

ArticlePool == {ArticleU1, ArticleU1Copy, ArticleU2, ArticleEmptyUrl, ArticleNoUrl}

\* what fetch_news + crawl_articles may hand to crawler_node
BatchChoices ==
    { <<>>,
      <<ArticleNoUrl, ArticleU1, ArticleEmptyUrl, ArticleU1Copy>>,
      <<ArticleU2, ArticleU2>> }

Pack(type, relevance, idx) ==
    [event_type |-> type, relevance_score |-> relevance, article_indices |-> <<idx>>]

\* what MergeAgent.merge_and_refine may return for a non-empty article list
PackChoices ==
    { << Pack("earnings", 9, 0) >>,
      << Pack("earnings", 10, 0), Pack("policy", 10, 0) >> }

\* what AnalysisAgent.analyze may return (overall_sentiment in hundredths)
AnalysisChoices ==
    { [overall_sentiment |-> 240, direction |-> "Up", optimal_timeframe |-> 5,
       evidences |-> << [event_type |-> "earnings", sentence |-> "record revenue"] >>],
      [overall_sentiment |-> -300, direction |-> "Down", optimal_timeframe |-> 10,
       evidences |-> <<>>] }

\* what _find_counter_arguments may return
ContraChoices == { <<"export controls may tighten">> }

\* what KeywordAgent returns
KeywordChoices == { <<"NVIDIA Blackwell demand">> }

default_keywords ==
    << "NVIDIA earnings report", "NVDA stock forecast", "NVIDIA AI chip demand",
       "NVIDIA data center revenue", "NVIDIA China export ban" >>

\* a collaborator call returns, or raises while the fault bound allows it
Outcomes == IF faults < MaxFaults THEN {"ok", "raise"} ELSE {"ok"}

\* the fault count after a call with the given outcome
Count(outcome) == IF outcome = "raise" THEN faults + 1 ELSE faults

(***************************************************************************)
(* workflow/state.py                                                       *)
(***************************************************************************)
\* faulty variant: the entry always carries the first iteration
ErrorEntry_first_iteration(name, iter, fallback) ==
    [node |-> name, iteration |-> 1, error |-> "exception", fallback |-> fallback]

\* an entry of the error log
ErrorEntry(name, iter, fallback) ==
    [node |-> name, iteration |-> iter, error |-> "exception", fallback |-> fallback]

\* faulty variant: the rules are chained, only the first that applies adds a note
create_iteration_context_chained(iter, val, kws, article_count, an) ==
    LET conf == val.confidence
        d1 == val.validation_notes
        d2 == IF conf < LOW_CONFIDENCE_LIMIT
              THEN Append(d1, Note("source quality very low"))
              ELSE IF article_count < FEW_ARTICLES_LIMIT
              THEN Append(d1, Note("too few articles"))
              ELSE IF an # None /\ an.evidences = <<>>
              THEN Append(d1, Note("evidence missing"))
              ELSE d1
    IN  [ iteration |-> iter,
          deficiencies |-> d2,
          contra_arguments |-> val.contra_arguments,
          previous_keywords |-> kws,
          previous_confidence |-> conf ]

create_iteration_context(iter, val, kws, article_count, an) ==
    LET conf == val.confidence
        d1 == val.validation_notes
        d2 == IF conf < LOW_CONFIDENCE_LIMIT
              THEN Append(d1, Note("source quality very low")) ELSE d1
        d3 == IF article_count < FEW_ARTICLES_LIMIT
              THEN Append(d2, Note("too few articles")) ELSE d2
        d4 == IF an # None /\ an.evidences = <<>>
              THEN Append(d3, Note("evidence missing")) ELSE d3
    IN  [ iteration |-> iter,
          deficiencies |-> d4,
          contra_arguments |-> val.contra_arguments,
          previous_keywords |-> kws,
          previous_confidence |-> conf ]

(***************************************************************************)
(* workflow/nodes.py: the conditional edge                                 *)
(***************************************************************************)
\* faulty variant: the budget test lets one more iteration through (> instead of >=)
should_continue_or_end_late_budget(val, iter, max_iter, critical) ==
    IF critical THEN "end"
    ELSE IF val.confidence >= CONFIDENCE_THRESHOLD THEN "end"
    ELSE IF iter > max_iter THEN "end"
    ELSE "continue"

\* faulty variant: the success test is missing
should_continue_or_end_no_success(val, iter, max_iter, critical) ==
    IF critical THEN "end"
    ELSE IF iter >= max_iter THEN "end"
    ELSE "continue"

\* faulty variant: the critical-error test is missing
should_continue_or_end_no_critical(val, iter, max_iter, critical) ==
    IF val.confidence >= CONFIDENCE_THRESHOLD THEN "end"
    ELSE IF iter >= max_iter THEN "end"
    ELSE "continue"

should_continue_or_end(val, iter, max_iter, critical) ==
    IF critical THEN "end"
    ELSE IF val.confidence >= CONFIDENCE_THRESHOLD THEN "end"
    ELSE IF iter >= max_iter THEN "end"
    ELSE IF iter > max_iter THEN "end"
    ELSE "continue"

(***************************************************************************)
(* Initial state: create_initial_state, entry point keyword_generation     *)
(***************************************************************************)
MergeIdle ==
    /\ existing_articles = <<>>
    /\ new_articles = <<>>
    /\ merged = <<>>

EvalIdle ==
    /\ source_score = <<0, 1>>
    /\ consistency_score = <<0, 1>>
    /\ recency_score = <<0, 1>>
    /\ overall_sentiment = 0
    /\ confidence = 0

create_initial_state(max_iter) ==
    /\ iteration = 1
    /\ max_iterations = max_iter
    /\ iteration_contexts = <<>>
    /\ keywords = <<>>
    /\ articles = <<>>
    /\ news_packs = <<>>
    /\ analysis = None
    /\ validation = None
    /\ all_results = <<>>
    /\ best_result = None
    /\ errors = <<>>
    /\ has_critical_error = FALSE
    /\ iteration_timestamps = <<>>

WorkflowIdle ==
    /\ create_initial_state(1)
    /\ node = END
    /\ crawled_articles = <<>>
    /\ faults = 0
    /\ final_result = Pending
    /\ context = None
    /\ history_data = Pending

Init ==
    /\ \E max_iter \in 1..MaxBudget : create_initial_state(max_iter)
    /\ node = "keyword_generation"
    /\ crawled_articles = <<>>
    /\ faults = 0
    /\ final_result = Pending
    /\ context = None
    /\ history_data = Pending
    /\ MergeIdle
    /\ EvalIdle
    /\ returned = FALSE

(***************************************************************************)
(* workflow/nodes.py: the node functions.  A node returns a partial update *)
(* that replaces the named fields of the state.                            *)
(***************************************************************************)
\* faulty variant: the crawler is wired to the analysis, news_merge is left out
add_edge_skip_merge ==
    [ keyword_generation |-> "news_collection",
      news_collection |-> "sentiment_analysis",
      news_merge |-> "sentiment_analysis",
      sentiment_analysis |-> "validation",
      feedback |-> "keyword_generation" ]

\* workflow/graph.py: the unconditional edges, workflow.add_edge(from, to)
add_edge ==
    [ keyword_generation |-> "news_collection",
      news_collection |-> "news_merge",
      news_merge |-> "sentiment_analysis",
      sentiment_analysis |-> "validation",
      feedback |-> "keyword_generation" ]

\* faulty variant: the first context is handed over instead of the latest
select_context_first(contexts) ==
    IF contexts # <<>> THEN contexts[1] ELSE None

\* `if iteration_contexts: context = iteration_contexts[-1]`; None stands for
\* the call of generate_keywords(), which takes no context
select_context(contexts) ==
    IF contexts # <<>> THEN contexts[Len(contexts)] ELSE None

\* An exception is raised either by the agent, which has received the
\* context, or before the contexts are read (_get_genai_client, KeywordAgent).
keyword_node ==
    /\ node = "keyword_generation"
    /\ \E outcome \in Outcomes :
         /\ faults' = Count(outcome)
         /\ IF outcome = "ok"
            THEN /\ keywords' \in KeywordChoices
                 /\ context' = select_context(iteration_contexts)
                 /\ UNCHANGED errors
            ELSE /\ keywords' = default_keywords
                 /\ context' \in {select_context(iteration_contexts), None}
                 /\ errors' = Append(errors, ErrorEntry("keyword_generation", iteration, "default_keywords"))
    /\ node' = add_edge.keyword_generation
    /\ UNCHANGED <<iteration, max_iterations, iteration_contexts, articles, news_packs,
                   analysis, validation, all_results, best_result, has_critical_error,
                   iteration_timestamps, crawled_articles>>
    /\ UNCHANGED <<mergeVars, evalVars, returned, history_data, final_result>>

\* faulty variant: every failure of the crawler is critical
not_existing_articles_always(existing) == TRUE

\* `if not existing_articles:` in the except branch of crawler_node
not_existing_articles(existing) == existing = <<>>

\* faulty variant: the stages after a critical error are not skipped
has_critical_error_skip_never(critical) == FALSE

\* `if state.get("has_critical_error"):` at the head of merge_node,
\* analysis_node and validation_node
has_critical_error_skip(critical) == critical

crawler_node ==
    /\ node = "news_collection"
    /\ \E outcome \in Outcomes :
         /\ faults' = Count(outcome)
         /\ IF outcome = "ok" /\ keywords # <<>>
            THEN \E batch \in BatchChoices :
                   /\ crawled_articles' = batch
                   /\ articles' = merge_articles(articles, batch)
                   /\ UNCHANGED <<errors, has_critical_error>>
            ELSE /\ errors' = Append(errors, ErrorEntry("news_collection", iteration, "keep_existing_articles"))
                 /\ IF not_existing_articles(articles)
                    THEN /\ articles' = <<>>
                         /\ has_critical_error' = TRUE
                    ELSE UNCHANGED <<articles, has_critical_error>>
                 /\ UNCHANGED crawled_articles
    /\ node' = add_edge.news_collection
    /\ UNCHANGED <<iteration, max_iterations, iteration_contexts, keywords, news_packs,
                   analysis, validation, all_results, best_result, iteration_timestamps>>
    /\ UNCHANGED <<mergeVars, evalVars, returned, history_data, final_result, context>>

\* faulty variant: the fallback builds a pack for every article
simple_packs_uncapped(arts) ==
    [i \in 1..Len(arts) |-> Pack("general", SIMPLE_PACK_RELEVANCE, i - 1)]

\* the fallback packs of merge_node: one per article among the first five
simple_packs(arts) ==
    [i \in 1..Min(Len(arts), SIMPLE_PACK_LIMIT) |-> Pack("general", SIMPLE_PACK_RELEVANCE, i - 1)]

merge_node ==
    /\ node = "news_merge"
    /\ IF has_critical_error_skip(has_critical_error)
       THEN /\ news_packs' = <<>>
            /\ UNCHANGED <<errors, faults>>
       ELSE \E outcome \in Outcomes :
              /\ faults' = Count(outcome)
              /\ IF outcome = "ok" /\ articles # <<>>
                 THEN /\ news_packs' \in PackChoices
                      /\ UNCHANGED errors
                 ELSE /\ news_packs' = simple_packs(articles)
                      /\ errors' = Append(errors, ErrorEntry("news_merge", iteration, "simple_news_packs"))
    /\ node' = add_edge.news_merge
    /\ UNCHANGED <<iteration, max_iterations, iteration_contexts, keywords, articles,
                   analysis, validation, all_results, best_result, has_critical_error,
                   iteration_timestamps, crawled_articles>>
    /\ UNCHANGED <<mergeVars, evalVars, returned, history_data, final_result, context>>

neutral_analysis ==
    [overall_sentiment |-> 0, direction |-> "Hold", optimal_timeframe |-> 7,
     evidences |-> << [event_type |-> "general", sentence |-> "neutral result after failed analysis"] >>]

analysis_node ==
    /\ node = "sentiment_analysis"
    /\ IF has_critical_error_skip(has_critical_error)
       THEN /\ analysis' = None
            /\ UNCHANGED <<errors, faults>>
       ELSE \E outcome \in Outcomes :
              /\ faults' = Count(outcome)
              /\ IF outcome = "ok" /\ news_packs # <<>>
                 THEN /\ analysis' \in AnalysisChoices
                      /\ UNCHANGED errors
                 ELSE /\ analysis' = neutral_analysis
                      /\ errors' = Append(errors, ErrorEntry("sentiment_analysis", iteration, "neutral_analysis"))
    /\ node' = add_edge.sentiment_analysis
    /\ UNCHANGED <<iteration, max_iterations, iteration_contexts, keywords, articles,
                   news_packs, validation, all_results, best_result, has_critical_error,
                   iteration_timestamps, crawled_articles>>
    /\ UNCHANGED <<mergeVars, evalVars, returned, history_data, final_result, context>>

\* the outcome record validation_node appends to all_results
IterationResult(iter, conf, an, val, kws, article_count, pack_count) ==
    [ iteration |-> iter, confidence |-> conf, analysis |-> an, validation |-> val,
      keywords |-> kws, article_count |-> article_count, news_pack_count |-> pack_count ]

\* the same record carrying "has_error": True
ErrorResult(iter, conf, an, val, kws, article_count, pack_count) ==
    [ iteration |-> iter, confidence |-> conf, analysis |-> an, validation |-> val,
      keywords |-> kws, article_count |-> article_count, news_pack_count |-> pack_count,
      has_error |-> TRUE ]

critical_validation ==
    [ confidence |-> 0, is_valid |-> FALSE,
      validation_notes |-> << Note("critical error") >>, contra_arguments |-> <<>> ]

\* faulty variant: the fallback of Validate reports a passing confidence
low_confidence_validation_passing ==
    [ confidence |-> CONFIDENCE_THRESHOLD, is_valid |-> TRUE,
      validation_notes |-> << Note("validation failed: exception") >>, contra_arguments |-> <<>> ]

low_confidence_validation ==
    [ confidence |-> FALLBACK_CONFIDENCE, is_valid |-> FALSE,
      validation_notes |-> << Note("validation failed: exception") >>, contra_arguments |-> <<>> ]

\* faulty variant: an outcome of equal confidence replaces the best
update_best_on_ties(best, result) ==
    IF best = None \/ result.confidence >= best.confidence THEN result ELSE best

\* `if not best_result or validation["confidence"] > best_result["confidence"]`
update_best(best, result) ==
    IF best = None \/ result.confidence > best.confidence THEN result ELSE best

\* faulty variant: the except branch never records its outcome as the best
update_best_fallback_never(best, result) == best

\* the except branch: `if not best_result: best_result = result`
update_best_fallback(best, result) == IF best = None THEN result ELSE best

\* faulty variant: the history is rebuilt from the newest outcome alone
append_result_latest_only(all, result) == << result >>

\* `all_results = state.get("all_results", []).copy(); all_results.append(result)`
append_result(all, result) == Append(all, result)

validation_node ==
    /\ node = "validation"
    /\ IF has_critical_error_skip(has_critical_error)
       THEN /\ validation' = critical_validation
            /\ all_results' = append_result(all_results,
                   ErrorResult(iteration, 0, None, critical_validation, keywords, 0, 0))
            /\ UNCHANGED <<best_result, errors, faults>>
       ELSE \E outcome \in Outcomes :
              /\ faults' = Count(outcome)
              /\ IF outcome = "ok" /\ analysis # None
                 THEN \E contra_args \in ContraChoices :
                      \E val \in {validate(analysis, news_packs, articles, contra_args)} :
                      \E result \in {IterationResult(iteration, val.confidence, analysis, val,
                                                      keywords, Len(articles), Len(news_packs))} :
                         /\ validation' = val
                         /\ all_results' = append_result(all_results, result)
                         /\ best_result' = update_best(best_result, result)
                         /\ UNCHANGED errors
                 ELSE \E val \in {low_confidence_validation} :
                      \E result \in {ErrorResult(iteration, FALLBACK_CONFIDENCE, analysis, val,
                                                  keywords, Len(articles), Len(news_packs))} :
                         /\ validation' = val
                         /\ all_results' = append_result(all_results, result)
                         /\ best_result' = update_best_fallback(best_result, result)
                         /\ errors' = Append(errors, ErrorEntry("validation", iteration, "low_confidence"))
    /\ node' = "decide"
    /\ UNCHANGED <<iteration, max_iterations, iteration_contexts, keywords, articles,
                   news_packs, analysis, has_critical_error, iteration_timestamps,
                   crawled_articles>>
    /\ UNCHANGED <<mergeVars, evalVars, returned, history_data, final_result, context>>

\* the conditional edge after validation: "continue" -> feedback, "end" -> END
Decide ==
    /\ node = "decide"
    /\ node' = IF should_continue_or_end(validation, iteration, max_iterations,
                                         has_critical_error) = "continue"
               THEN "feedback" ELSE END
    /\ UNCHANGED <<iteration, max_iterations, iteration_contexts, keywords, articles,
                   news_packs, analysis, validation, all_results, best_result, errors,
                   has_critical_error, iteration_timestamps, crawled_articles, faults>>
    /\ UNCHANGED <<mergeVars, evalVars, returned, history_data, final_result, context>>

\* the context of the except branch of feedback_node
basic_context(iter, val, kws) ==
    [ iteration |-> iter,
      deficiencies |-> << Note("feedback failed - try diverse keywords") >>,
      contra_arguments |-> <<>>,
      previous_keywords |-> kws,
      previous_confidence |-> val.confidence ]

\* the iteration number feedback_node returns on its normal path
next_iteration(iter) == iter + 1

\* faulty variant: the except branch forgets to advance the iteration
next_iteration_fallback_same(iter) == iter

\* the iteration number feedback_node returns from its except branch
next_iteration_fallback(iter) == iter + 1

feedback_node ==
    /\ node = "feedback"
    /\ \E outcome \in Outcomes :
         /\ faults' = Count(outcome)
         /\ IF outcome = "ok"
            THEN /\ iteration_contexts' = Append(iteration_contexts,
                       create_iteration_context(iteration, validation, keywords,
                                                Len(articles), analysis))
                 /\ iteration' = next_iteration(iteration)
                 /\ iteration_timestamps' = Append(iteration_timestamps,
                       [iteration |-> iteration, confidence |-> validation.confidence])
                 /\ UNCHANGED errors
            ELSE /\ errors' = Append(errors, ErrorEntry("feedback", iteration, "basic_context"))
                 /\ iteration_contexts' = Append(iteration_contexts,
                       basic_context(iteration, validation, keywords))
                 /\ iteration' = next_iteration_fallback(iteration)
                 /\ iteration_timestamps' = Append(iteration_timestamps,
                       [iteration |-> iteration, confidence |-> validation.confidence,
                        has_error |-> TRUE])
    /\ node' = add_edge.feedback
    /\ UNCHANGED <<max_iterations, keywords, articles, news_packs, analysis, validation,
                   all_results, best_result, has_critical_error, crawled_articles>>
    /\ UNCHANGED <<mergeVars, evalVars, returned, history_data, final_result, context>>

(***************************************************************************)
(* The stages after Retrieve, started from the state in which the crawler  *)
(* of iteration 1 has returned n articles of distinct urls.                *)
(***************************************************************************)
ManyItems(n) ==
    [i \in 1..n |-> [url |-> "https://example.com/" \o ToString(i),
                     source |-> "Reuters", publishedAt |-> Naive(1)]]

StageInit ==
    /\ \E max_iter \in 1..MaxBudget : max_iterations = max_iter
    /\ \E n \in 0..MaxItems :
          /\ articles = ManyItems(n)
          /\ crawled_articles = ManyItems(n)
    /\ keywords \in KeywordChoices
    /\ node = "news_merge"
    /\ iteration = 1
    /\ iteration_contexts = <<>>
    /\ news_packs = <<>>
    /\ analysis = None
    /\ validation = None
    /\ all_results = <<>>
    /\ best_result = None
    /\ errors = <<>>
    /\ has_critical_error = FALSE
    /\ iteration_timestamps = <<>>
    /\ faults = 0
    /\ final_result = Pending
    /\ context = None
    /\ history_data = Pending
    /\ MergeIdle
    /\ EvalIdle
    /\ returned = FALSE

StageNext ==
    \/ merge_node
    \/ analysis_node
    \/ validation_node
    \/ Decide
    \/ feedback_node

StageSpec == StageInit /\ [][StageNext]_vars

(***************************************************************************)
(* feedback_node and keyword_node applied to drawn inputs: the validation,  *)
(* the analysis, the number of articles and the iteration range over       *)
(* bounded sets; the earlier iterations have left one context each.        *)
(***************************************************************************)
PriorContexts(iter) ==
    [k \in 1..(iter - 1) |->
        create_iteration_context(k, low_confidence_validation, default_keywords, 0,
                                 neutral_analysis)]

ContextValidations ==
    { [ confidence |-> conf,
        is_valid |-> conf >= CONFIDENCE_THRESHOLD,
        validation_notes |-> notes,
        contra_arguments |-> contra_args ] :
      conf \in {0, LOW_CONFIDENCE_LIMIT - 1, LOW_CONFIDENCE_LIMIT, CONFIDENCE_THRESHOLD - 1},
      notes \in { <<>>,
                  << [text |-> "source", pct |-> 50] >>,
                  << [text |-> "source", pct |-> 50], [text |-> "recency", pct |-> 0] >> },
      contra_args \in ContraChoices \cup {<<>>} }

ContextInit ==
    /\ validation \in ContextValidations
    /\ analysis \in AnalysisChoices \cup {neutral_analysis, None}
    /\ \E n \in 0..MaxItems :
          /\ articles = ManyItems(n)
          /\ crawled_articles = ManyItems(n)
    /\ \E iter \in 1..MaxBudget :
          /\ iteration = iter
          /\ iteration_contexts = PriorContexts(iter)
    /\ max_iterations = MaxBudget + 1
    /\ keywords \in KeywordChoices \cup {default_keywords}
    /\ node \in {"keyword_generation", "feedback"}
    /\ news_packs = <<>>
    /\ all_results = <<>>
    /\ best_result = None
    /\ errors = <<>>
    /\ has_critical_error = FALSE
    /\ iteration_timestamps = <<>>
    /\ faults = 0
    /\ final_result = Pending
    /\ context = None
    /\ history_data = Pending
    /\ MergeIdle
    /\ EvalIdle
    /\ returned = FALSE

ContextNext ==
    \/ feedback_node
    \/ keyword_node

ContextSpec == ContextInit /\ [][ContextNext]_vars

(***************************************************************************)
(* main.py: what happens to the final state once workflow.invoke returned  *)
(***************************************************************************)
Raised(exception) == [raised |-> exception]
FinalState == [final_state |-> TRUE]
NoValidResult == [no_valid_result |-> TRUE]     \* process_results returns None

\* run_workflow after workflow.invoke: the per-iteration log line evaluates
\* result.get('analysis', {}).get('direction', 'N/A'); the key "analysis" is
\* present in every outcome, so an outcome whose analysis is None raises
\* AttributeError, which run_workflow logs and re-raises (main re-raises it too).
run_workflow ==
    /\ node = END
    /\ final_result = Pending
    /\ final_result' = IF \E i \in DOMAIN all_results : all_results[i].analysis = None
                       THEN Raised("AttributeError")
                       ELSE FinalState
    /\ UNCHANGED <<node, iteration, max_iterations, iteration_contexts, keywords, articles,
                   news_packs, analysis, validation, all_results, best_result, errors,
                   has_critical_error, iteration_timestamps, crawled_articles, faults>>
    /\ UNCHANGED <<mergeVars, evalVars, returned, history_data, context>>

\* the final_result dict of process_results (the fields that depend on the run)
FinalResult(all, best) ==
    [ total_iterations |-> Len(all),
      best_iteration |-> best.iteration,
      prediction |-> [ direction |-> best.analysis.direction,
                       confidence |-> best.confidence,
                       is_valid |-> best.confidence >= CONFIDENCE_THRESHOLD ],
      iteration_history |-> all ]

\* process_results(final_state), called by main when run_workflow returned
process_results ==
    /\ node = END
    /\ final_result = FinalState
    /\ final_result' = IF best_result = None THEN NoValidResult
                       ELSE FinalResult(all_results, best_result)
    /\ UNCHANGED <<node, iteration, max_iterations, iteration_contexts, keywords, articles,
                   news_packs, analysis, validation, all_results, best_result, errors,
                   has_critical_error, iteration_timestamps, crawled_articles, faults>>
    /\ UNCHANGED <<mergeVars, evalVars, returned, history_data, context>>

\* faulty variant: a run whose confidence did not change counts as improved
_create_history_summary_not_worse(all) ==
    [ confidence_trend |-> [k \in DOMAIN all |-> all[k].confidence],
      article_count_trend |-> [k \in DOMAIN all |-> all[k].article_count],
      best_iteration |->
          (LET best == all[CHOOSE i \in DOMAIN all :
                              \A j \in DOMAIN all :
                                 /\ all[j].confidence <= all[i].confidence
                                 /\ j < i => all[j].confidence < all[i].confidence]
           IN  [ iteration |-> best.iteration, confidence |-> best.confidence,
                 direction |-> best.analysis.direction ]),
      improvement_metrics |->
          [ confidence_improvement |-> all[Len(all)].confidence - all[1].confidence,
            article_increase |-> all[Len(all)].article_count - all[1].article_count,
            improved |-> all[Len(all)].confidence - all[1].confidence >= 0 ] ]

\* utils/file_handler.py: _create_history_summary for a non-empty history whose
\* best entry has an analysis; max(all_results, key=...) is the first entry of
\* maximal confidence
_create_history_summary(all) ==
    [ confidence_trend |-> [k \in DOMAIN all |-> all[k].confidence],
      article_count_trend |-> [k \in DOMAIN all |-> all[k].article_count],
      best_iteration |->
          (LET best == all[CHOOSE i \in DOMAIN all :
                              \A j \in DOMAIN all :
                                 /\ all[j].confidence <= all[i].confidence
                                 /\ j < i => all[j].confidence < all[i].confidence]
           IN  [ iteration |-> best.iteration, confidence |-> best.confidence,
                 direction |-> best.analysis.direction ]),
      improvement_metrics |->
          [ confidence_improvement |-> all[Len(all)].confidence - all[1].confidence,
            article_increase |-> all[Len(all)].article_count - all[1].article_count,
            improved |-> all[Len(all)].confidence - all[1].confidence > 0 ] ]

\* max(all_results, key=lambda x: x.get('confidence', 0)) has 'analysis': None:
\* best_iteration.get('analysis', {}).get('direction', 'N/A') raises
SummaryRaises(all) ==
    \E i \in DOMAIN all :
       /\ all[i].analysis = None
       /\ \A j \in DOMAIN all :
             /\ all[j].confidence <= all[i].confidence
             /\ j < i => all[j].confidence < all[i].confidence

\* save_iteration_history(all_results): the history_data dict written to the
\* file (without its timestamp); the summary of an empty history is {}
save_iteration_history(all) ==
    IF all = <<>>
    THEN [ total_iterations |-> 0, iterations |-> all, summary |-> <<>> ]
    ELSE IF SummaryRaises(all)
    THEN Raised("AttributeError")
    ELSE [ total_iterations |-> Len(all), iterations |-> all,
           summary |-> _create_history_summary(all) ]

\* save_results(final_result, final_state), called by main when process_results
\* returned a final result; an exception of the saving is logged, not raised
save_results ==
    /\ node = END
    /\ final_result \notin {Pending, FinalState, NoValidResult, Raised("AttributeError")}
    /\ history_data = Pending
    /\ history_data' = IF all_results # <<>> THEN save_iteration_history(all_results)
                       ELSE None
    /\ UNCHANGED <<node, iteration, max_iterations, iteration_contexts, keywords, articles,
                   news_packs, analysis, validation, all_results, best_result, errors,
                   has_critical_error, iteration_timestamps, crawled_articles, faults,
                   final_result, context>>
    /\ UNCHANGED <<mergeVars, evalVars, returned>>

Next ==
    \/ keyword_node
    \/ crawler_node
    \/ merge_node
    \/ analysis_node
    \/ validation_node
    \/ Decide
    \/ feedback_node
    \/ run_workflow
    \/ process_results
    \/ save_results

Spec == Init /\ [][Next]_vars

\* The engine is single-threaded and synchronous: whenever a node is due it runs,
\* and every stage call returns (with a result or an exception).
FairSpec == Spec /\ WF_vars(Next)

\* run_workflow(max_iterations) called with any integer: create_initial_state
\* stores the argument as it is
AnyBudgetInit ==
    /\ \E max_iter \in (-1)..MaxBudget : create_initial_state(max_iter)
    /\ node = "keyword_generation"
    /\ crawled_articles = <<>>
    /\ faults = 0
    /\ final_result = Pending
    /\ context = None
    /\ history_data = Pending
    /\ MergeIdle
    /\ EvalIdle
    /\ returned = FALSE

AnyBudgetSpec == AnyBudgetInit /\ [][Next]_vars

(***************************************************************************)
(* HistorySpec: one call of save_iteration_history on an outcome history   *)
(* of up to MaxLen iterations                                              *)
(***************************************************************************)
\* what an iteration may have recorded: the placeholder of the critical path,
\* the outcome of the fallback of Validate, or an evaluated outcome
OutcomeShapes ==
    { [confidence |-> 0, article_count |-> 0, kind |-> "critical"] }
    \cup { [confidence |-> FALLBACK_CONFIDENCE, article_count |-> n, kind |-> "fallback"] :
             n \in {0, 3} }
    \cup { [confidence |-> conf, article_count |-> n, kind |-> "evaluated"] :
             conf \in {0, 18, FALLBACK_CONFIDENCE, 45, 75}, n \in {0, 3, 12} }

DrawnValidation(conf) ==
    [ confidence |-> conf, is_valid |-> conf >= CONFIDENCE_THRESHOLD,
      validation_notes |-> <<>>, contra_arguments |-> <<>> ]

DrawnOutcome(k, shape) ==
    IF shape.kind = "critical"
    THEN ErrorResult(k, 0, None, critical_validation, default_keywords, 0, 0)
    ELSE IF shape.kind = "fallback"
    THEN ErrorResult(k, FALLBACK_CONFIDENCE, neutral_analysis, low_confidence_validation,
                     default_keywords, shape.article_count, 0)
    ELSE IterationResult(k, shape.confidence, neutral_analysis,
                         DrawnValidation(shape.confidence), default_keywords,
                         shape.article_count, 0)

HistoryInit ==
    /\ \E shapes \in SeqsUpTo(OutcomeShapes, MaxLen) :
          all_results = [k \in DOMAIN shapes |-> DrawnOutcome(k, shapes[k])]
    /\ iteration = 1
    /\ max_iterations = 1
    /\ iteration_contexts = <<>>
    /\ keywords = <<>>
    /\ articles = <<>>
    /\ news_packs = <<>>
    /\ analysis = None
    /\ validation = None
    /\ best_result = None
    /\ errors = <<>>
    /\ has_critical_error = FALSE
    /\ iteration_timestamps = <<>>
    /\ node = END
    /\ crawled_articles = <<>>
    /\ faults = 0
    /\ final_result = Pending
    /\ context = None
    /\ history_data = Pending
    /\ MergeIdle
    /\ EvalIdle
    /\ returned = FALSE

CallSaveHistory ==
    /\ ~returned
    /\ history_data' = save_iteration_history(all_results)
    /\ returned' = TRUE
    /\ UNCHANGED <<node, iteration, max_iterations, iteration_contexts, keywords, articles,
                   news_packs, analysis, validation, all_results, best_result, errors,
                   has_critical_error, iteration_timestamps, crawled_articles, faults,
                   final_result, context>>
    /\ UNCHANGED <<mergeVars, evalVars>>

HistoryNext == CallSaveHistory

HistorySpec == HistoryInit /\ [][HistoryNext]_vars

(***************************************************************************)
(* MergeSpec: one call of merge_articles on arbitrary article lists        *)
(***************************************************************************)
MergeInit ==
    /\ WorkflowIdle
    /\ EvalIdle
    /\ existing_articles \in SeqsUpTo(ArticlePool, MaxLen)
    /\ new_articles \in SeqsUpTo(ArticlePool, MaxLen)
    /\ merged = <<>>
    /\ returned = FALSE

CallMerge ==
    /\ ~returned
    /\ merged' = merge_articles(existing_articles, new_articles)
    /\ returned' = TRUE
    /\ UNCHANGED <<wfVars, evalVars, existing_articles, new_articles>>

MergeNext == CallMerge

MergeSpec == MergeInit /\ [][MergeNext]_vars

(***************************************************************************)
(* EvalSpec: one evaluation of the confidence formula on sub-scores in     *)
(* their valid ranges                                                      *)
(***************************************************************************)
UnitScores == {Norm(<<k, ScoreGrid>>) : k \in 0..ScoreGrid} \cup {<<4, 5>>, <<7, 10>>, <<1, 2>>}

\* overall sentiments in [-3, 3], in hundredths
SentimentChoices == {-300, -240, -100, 0, 50, 240, 300}

EvalInit ==
    /\ WorkflowIdle
    /\ MergeIdle
    /\ source_score \in UnitScores
    /\ consistency_score \in UnitScores
    /\ recency_score \in UnitScores
    /\ overall_sentiment \in SentimentChoices
    /\ confidence = 0
    /\ returned = FALSE

Evaluate ==
    /\ ~returned
    /\ confidence' = CompositeConfidence(source_score, consistency_score, recency_score,
                                         overall_sentiment)
    /\ returned' = TRUE
    /\ UNCHANGED <<wfVars, mergeVars, source_score, consistency_score, recency_score,
                   overall_sentiment>>

EvalNext == Evaluate

EvalSpec == EvalInit /\ [][EvalNext]_vars

(***************************************************************************)
(* ValidateSpec: one call of ValidationAgent.validate on arbitrary items,  *)
(* packs and analysis; the sub-scores are the method's local variables     *)
(***************************************************************************)
\* packs as a grouping collaborator may hand them over: relevance_score is an
\* unconstrained float field (tenths here), so 3.0 and -2.0 are possible
EvalPackPool ==
    { Pack("earnings", 9, 0), Pack("policy", 10, 0),
      Pack("earnings", 30, 0), Pack("earnings", -20, 0) }

ValidateInit ==
    /\ node = END
    /\ iteration = 1
    /\ max_iterations = 1
    /\ iteration_contexts = <<>>
    /\ keywords = <<>>
    /\ articles \in SeqsUpTo(ArticlePool, MaxLen)
    /\ news_packs \in SeqsUpTo(EvalPackPool, MaxLen)
    /\ analysis \in AnalysisChoices \cup {neutral_analysis}
    /\ validation = None
    /\ all_results = <<>>
    /\ best_result = None
    /\ errors = <<>>
    /\ has_critical_error = FALSE
    /\ iteration_timestamps = <<>>
    /\ crawled_articles = <<>>
    /\ faults = 0
    /\ final_result = Pending
    /\ context = None
    /\ history_data = Pending
    /\ MergeIdle
    /\ EvalIdle
    /\ returned = FALSE

CallValidate ==
    /\ ~returned
    /\ \E contra_args \in ContraChoices :
         validation' = validate(analysis, news_packs, articles, contra_args)
    /\ source_score' = _calculate_source_quality(articles)
    /\ consistency_score' = _calculate_consistency(news_packs)
    /\ recency_score' = _calculate_recency(articles)
    /\ overall_sentiment' = analysis.overall_sentiment
    /\ confidence' = validation'.confidence
    /\ returned' = TRUE
    /\ UNCHANGED <<node, iteration, max_iterations, iteration_contexts, keywords, articles,
                   news_packs, analysis, all_results, best_result, errors,
                   has_critical_error, iteration_timestamps, crawled_articles, faults,
                   final_result>>
    /\ UNCHANGED <<mergeVars, context, history_data>>

ValidateNext == CallValidate

ValidateSpec == ValidateInit /\ [][ValidateNext]_vars

(***************************************************************************)
(* Properties of the feedback loop (checked under Spec / FairSpec)         *)
(***************************************************************************)
StartNodes == {"feedback", "keyword_generation", "news_collection"}

DecidePriorityOrder ==
    [][ /\ node = "decide" =>
            /\ has_critical_error => node' = END
            /\ validation.confidence >= CONFIDENCE_THRESHOLD => node' = END
            /\ iteration >= max_iterations => node' = END
            /\ node' = "feedback" <=> /\ ~has_critical_error
                                      /\ validation.confidence < CONFIDENCE_THRESHOLD
                                      /\ iteration < max_iterations
        /\ node' = "feedback" => node = "decide" ]_vars

\* feedback was entered: no critical error, low confidence, budget left
DecidePriorityOrder_Witness ==
    /\ node = "feedback"
    /\ ~has_critical_error
    /\ validation.confidence < CONFIDENCE_THRESHOLD
    /\ iteration < max_iterations

\* C3: once the critical-error flag is set, the run ends at the same iteration's
\* conditional edge: feedback, keyword generation and news collection never run
\* again and the iteration does not advance.
CriticalErrorEndsRun ==
    [][ has_critical_error =>
            /\ node' \notin StartNodes
            /\ iteration' = iteration
            /\ node = "decide" => node' = END ]_vars

\* a critical error in iteration 1 ended a run that had budget left
CriticalErrorEndsRun_Witness ==
    /\ has_critical_error
    /\ node = END
    /\ iteration = 1
    /\ max_iterations >= 2

\* C4: iteration starts at 1, never decreases, changes only in feedback_node,
\* which adds exactly 1 on its normal and on its fallback path, and never
\* exceeds max_iterations + 1.
IterationCounter ==
    /\ iteration = 1
    /\ [](iteration <= max_iterations + 1)
    /\ [][ /\ iteration' >= iteration
           /\ iteration' # iteration => node = "feedback"
           /\ node = "feedback" => iteration' = iteration + 1 ]_vars

\* the fallback path of feedback_node has just advanced the iteration to 2
IterationCounter_Witness ==
    /\ node = "keyword_generation"
    /\ iteration = 2
    /\ errors # <<>>
    /\ errors[Len(errors)].node = "feedback"
    /\ errors[Len(errors)].iteration = 1

\* the identity key of an article, wrapped so that a missing key is a value
KeyOf(article) == IF "url" \in DOMAIN article THEN [url |-> article.url] ELSE None

\* C5: in every reachable state the accumulated articles hold no two items with
\* the same url.
NoDuplicateUrls ==
    \A i, j \in DOMAIN articles : i # j => KeyOf(articles[i]) # KeyOf(articles[j])

\* iteration 2 retrieved a batch that repeats a url internally, and that url
\* was already accumulated in iteration 1
NoDuplicateUrls_Witness ==
    /\ node = "news_merge"
    /\ iteration = 2
    /\ all_results[1].article_count = 1
    /\ crawled_articles = <<ArticleU2, ArticleU2>>
    /\ articles = <<ArticleU2>>

(***************************************************************************)
(* Properties of merge_articles (checked under MergeSpec)                  *)
(***************************************************************************)
\* the article carries a key that is neither missing nor empty
NonEmptyKey(article) == KeyOf(article) \notin {None, [url |-> ""]}

\* positions of new_articles whose key is non-empty and occurs neither in
\* existing_articles nor earlier in new_articles
FirstOccurrences ==
    {i \in DOMAIN new_articles :
        /\ NonEmptyKey(new_articles[i])
        /\ \A j \in DOMAIN existing_articles :
              KeyOf(existing_articles[j]) # KeyOf(new_articles[i])
        /\ \A j \in 1..(i - 1) : KeyOf(new_articles[j]) # KeyOf(new_articles[i])}

\* C6: merge(existing, incoming) is all of existing, in unchanged order,
\* followed by exactly the incoming items whose key is non-empty and is the
\* first occurrence of that key across existing and incoming, in arrival order.
MergeKeepsFirstOccurrences ==
    returned =>
        /\ Len(merged) = Len(existing_articles) + Cardinality(FirstOccurrences)
        /\ SubSeq(merged, 1, Len(existing_articles)) = existing_articles
        /\ \A i \in FirstOccurrences :
              merged[Len(existing_articles)
                     + Cardinality({j \in FirstOccurrences : j <= i})] = new_articles[i]

\* the incoming batch brings a new key twice, after an unrelated existing item
MergeKeepsFirstOccurrences_Witness ==
    /\ returned
    /\ existing_articles = <<ArticleU2>>
    /\ new_articles = <<ArticleU1, ArticleU1Copy>>
    /\ merged = <<ArticleU2, ArticleU1>>

\* C7: an incoming item whose key is empty or missing is never merged; it is
\* dropped silently and the other incoming items are merged as if it had not
\* been in the batch.
EmptyKeyDropped ==
    returned =>
        /\ \A i \in (Len(existing_articles) + 1)..Len(merged) : NonEmptyKey(merged[i])
        /\ Len(merged) - Len(existing_articles)
              <= Cardinality({i \in DOMAIN new_articles : NonEmptyKey(new_articles[i])})
        /\ merged = merge_articles(existing_articles, SelectSeq(new_articles, NonEmptyKey))

\* a batch of one item with an empty key followed by one item with a fresh key
EmptyKeyDropped_Witness ==
    /\ returned
    /\ existing_articles = <<ArticleU2>>
    /\ new_articles = <<ArticleEmptyUrl, ArticleU1>>
    /\ merged = <<ArticleU2, ArticleU1>>

\* keys of a list of articles; a missing key counts as one key value
DistinctKeys(s) == {KeyOf(s[i]) : i \in DOMAIN s}

\* C8: merging A with merge(A, B) yields as many distinct keys as merge(A, B)
\* has (re-merging is idempotent).
RemergeIdempotent ==
    returned =>
        LET again == merge_articles(existing_articles, merged)
        IN  /\ Cardinality(DistinctKeys(again)) = Cardinality(DistinctKeys(merged))
            /\ Cardinality({k \in DistinctKeys(again) : k \notin {None, [url |-> ""]}})
                 = Cardinality({k \in DistinctKeys(merged) : k \notin {None, [url |-> ""]}})

\* merge(A, B) holds a key of A and a key that only B brought
RemergeIdempotent_Witness ==
    /\ returned
    /\ existing_articles = <<ArticleU1>>
    /\ new_articles = <<ArticleU1Copy, ArticleU2>>
    /\ merged = <<ArticleU1, ArticleU2>>

\* existing_articles is a collection the accumulation can produce: every key
\* non-empty and no key twice
Accumulated(s) ==
    /\ \A i \in DOMAIN s : NonEmptyKey(s[i])
    /\ \A i, j \in DOMAIN s : i # j => KeyOf(s[i]) # KeyOf(s[j])

\* C9: len(merge(existing, incoming)) <= len(existing) + len(incoming), with
\* equality exactly when no incoming item has an empty key or a key that
\* collides with an existing or an earlier incoming item; for an accumulated
\* existing collection that is exactly when all keys of existing and incoming
\* together are non-empty and pairwise distinct.
MergeLengthBound ==
    returned =>
        /\ Len(merged) <= Len(existing_articles) + Len(new_articles)
        /\ Len(merged) = Len(existing_articles) + Len(new_articles)
              <=> FirstOccurrences = DOMAIN new_articles
        /\ Accumulated(existing_articles) =>
              (Len(merged) = Len(existing_articles) + Len(new_articles)
                 <=> Accumulated(existing_articles \o new_articles))

\* a merge without collisions or empty keys, of full length
MergeLengthBound_Witness ==
    /\ returned
    /\ existing_articles = <<ArticleU1>>
    /\ new_articles = <<ArticleU2>>
    /\ Len(merged) = 2

(***************************************************************************)
(* Properties of the confidence formula (checked under EvalSpec)           *)
(***************************************************************************)
\* C10: for sub-scores in [0,1] and an overall sentiment in [-3,3] the
\* computed confidence is an integer in [0,100].
ConfidenceInRange == returned => confidence \in 0..100

\* all sub-scores at their maximum and the sentiment at its extreme
ConfidenceInRange_Witness ==
    /\ returned
    /\ source_score = <<1, 1>>
    /\ consistency_score = <<1, 1>>
    /\ recency_score = <<1, 1>>
    /\ overall_sentiment = -300
    /\ confidence = 99

\* |overall_sentiment| * 3.33 capped at 10, in units of 1/10000
CappedMagnitude ==
    LET magnitude == IF overall_sentiment < 0 THEN -overall_sentiment ELSE overall_sentiment
    IN  IF magnitude * 333 < 100000 THEN magnitude * 333 ELSE 100000

\* C11: the confidence is source*40 + consistency*30 + recency*20 +
\* min(|overall_sentiment|*3.33, 10) truncated toward zero; source 0.8,
\* consistency 0.7, recency 0.5 and sentiment magnitude 2.4 give 70.
ConfidenceIsTruncatedSum ==
    returned =>
        LET D == source_score[2] * consistency_score[2] * recency_score[2]
            V == 10000 * ( 40 * source_score[1] * consistency_score[2] * recency_score[2]
                         + 30 * consistency_score[1] * source_score[2] * recency_score[2]
                         + 20 * recency_score[1] * source_score[2] * consistency_score[2] )
                 + CappedMagnitude * D
        IN  /\ confidence * 10000 * D <= V
            /\ V < (confidence + 1) * 10000 * D
            /\ ( /\ source_score = <<4, 5>>
                 /\ consistency_score = <<7, 10>>
                 /\ recency_score = <<1, 2>>
                 /\ overall_sentiment \in {240, -240} ) => confidence = 70

\* the worked example: 32 + 21 + 10 + 7.992 = 70.992
ConfidenceIsTruncatedSum_Witness ==
    /\ returned
    /\ source_score = <<4, 5>>
    /\ consistency_score = <<7, 10>>
    /\ recency_score = <<1, 2>>
    /\ overall_sentiment = 240
    /\ confidence = 70

(***************************************************************************)
(* Properties of ValidationAgent.validate (checked under ValidateSpec)     *)
(***************************************************************************)
\* C12: for every pack collection and analysis handed to the evaluator, also
\* with pack relevance weights outside [0,1], the confidence returned is
\* neither below 0 nor above 100.
ConfidenceClamped ==
    returned => validation.confidence >= 0 /\ validation.confidence <= 100

\* the item's timestamp parses as an ISO instant (with or without an offset)
WellFormedDate(article) == article.publishedAt.kind \in {"naive", "aware"}

\* C13: recency is the fraction of items published within 7 days of the
\* evaluation, items with a malformed timestamp being left out of both the
\* numerator and the denominator.
RecencySkipsMalformed ==
    returned =>
        LET dated == {i \in DOMAIN articles : WellFormedDate(articles[i])}
            recent == {i \in dated : articles[i].publishedAt.days_ago <= 7}
        IN  dated # {} =>
              recency_score[1] * Cardinality(dated) = recency_score[2] * Cardinality(recent)

\* C14: with an empty item collection source quality and recency are both 0,
\* whatever the packs and the analysis are, and the confidence is the truncated
\* sum of the consistency and sentiment terms alone.
EmptyItemsScoreZero ==
    (returned /\ articles = <<>>) =>
        /\ source_score[1] = 0
        /\ recency_score[1] = 0
        /\ confidence = Trunc(30 * consistency_score[1] * 10000
                                + CappedMagnitude * consistency_score[2],
                              10000 * consistency_score[2])

\* no items, two packs of different categories, a strong sentiment:
\* 0 + 0.965 * 30 + 0 + 7.992 = 36.942
EmptyItemsScoreZero_Witness ==
    /\ returned
    /\ articles = <<>>
    /\ news_packs = << Pack("earnings", 9, 0), Pack("policy", 10, 0) >>
    /\ overall_sentiment = 240
    /\ confidence = 36

\* C15: consistency is exactly 0.6 with fewer than 2 packs, whatever their
\* relevance and category; with 2 or more packs it is
\* 0.3 * (distinct categories / packs) + 0.7 * (mean relevance).
ConsistencyRule ==
    returned =>
        IF Len(news_packs) < 2
        THEN 10 * consistency_score[1] = 6 * consistency_score[2]
        ELSE LET n == Len(news_packs)
                 categories == Cardinality({news_packs[i].event_type : i \in 1..n})
                 relevance_tenths == SumSeq([i \in 1..n |-> news_packs[i].relevance_score])
             IN  \* 0.3 * categories / n + 0.7 * relevance_tenths / (10 n), times 100 n
                 100 * n * consistency_score[1]
                   = (30 * categories + 7 * relevance_tenths) * consistency_score[2]

\* a single pack whose relevance is far from 0.6
ConsistencyRule_Witness ==
    /\ returned
    /\ news_packs = << Pack("earnings", 30, 0) >>
    /\ consistency_score = <<6, 10>>

(***************************************************************************)
(* Termination scenarios and the result tracker (checked under Spec)       *)
(***************************************************************************)
\* C16: when iteration k completes without a critical error and with
\* confidence >= threshold, the run ends after iteration k without a Feedback
\* step, and the best result is iteration k's outcome.
SuccessEndsRun ==
    /\ [][ ( /\ node = "decide"
             /\ ~has_critical_error
             /\ validation.confidence >= CONFIDENCE_THRESHOLD )
           => /\ node' = END
              /\ Len(all_results') = iteration
              /\ best_result' = all_results'[iteration]
              /\ best_result'.iteration = iteration
              /\ best_result'.confidence = validation.confidence ]_vars
    /\ [][ node = END => /\ node' = END
                         /\ iteration' = iteration
                         /\ iteration_contexts' = iteration_contexts
                         /\ best_result' = best_result ]_vars

\* the first of two allowed iterations qualifies; no feedback context was built
SuccessEndsRun_Witness ==
    /\ node = END
    /\ max_iterations = 2
    /\ iteration = 1
    /\ ~has_critical_error
    /\ validation.confidence >= CONFIDENCE_THRESHOLD
    /\ best_result.iteration = 1
    /\ iteration_contexts = <<>>

\* C17: without a critical error and with every confidence below the
\* threshold, the run executes exactly max_iterations iterations and ends by
\* budget exhaustion with best_result.confidence the maximum confidence over
\* those iterations.
BudgetEndKeepsMaximum ==
    ( /\ node = END
      /\ ~has_critical_error
      /\ \A i \in DOMAIN all_results : all_results[i].confidence < CONFIDENCE_THRESHOLD )
    => /\ Len(all_results) = max_iterations
       /\ iteration = max_iterations
       /\ \A i \in DOMAIN all_results : all_results[i].confidence <= best_result.confidence
       /\ \E i \in DOMAIN all_results : all_results[i].confidence = best_result.confidence

\* C18: when Retrieve fails in iteration 1 with no items accumulated, the
\* critical flag is set, Validate records the fixed placeholder instead of an
\* evaluated confidence, and the run ends at iteration 1's Decide with the flag
\* still set.
CriticalRetrieveEndsRun ==
    /\ [][ (node = "news_collection" /\ iteration = 1 /\ errors' # errors)
             => (has_critical_error' /\ articles' = <<>>) ]_vars
    /\ [][ (has_critical_error /\ iteration = 1)
           => /\ has_critical_error'
              /\ iteration' = 1
              /\ node = "validation" =>
                    /\ analysis = None
                    /\ validation' = critical_validation
                    /\ Len(all_results') = 1
                    /\ all_results'[1].analysis = None
                    /\ all_results'[1].confidence = 0
                    /\ best_result' = None
              /\ node = "decide" => node' = END
              /\ node = END => node' = END ]_vars

\* the run has ended in iteration 1 of 2 on the retrieval failure
CriticalRetrieveEndsRun_Witness ==
    /\ node = END
    /\ has_critical_error
    /\ max_iterations = 2
    /\ iteration = 1
    /\ Len(errors) = 1
    /\ errors[1].node = "news_collection"
    /\ validation = critical_validation
    /\ Len(all_results) = 1

\* positions of the outcomes that were not recorded by the critical-error path
\* (that path ends the run, so only the last outcome can come from it)
NonCriticalOutcomes ==
    {i \in DOMAIN all_results : ~(has_critical_error /\ i = Len(all_results))}

\* C19: a run that ends with no non-critical outcome recorded hands the
\* consumer the explicit "no valid result" signal; a run with at least one
\* non-critical outcome hands over the final outcome built from the best one.
NoValidResultSignal ==
    (node = END /\ final_result \notin {Pending, FinalState})
    => IF NonCriticalOutcomes = {}
       THEN final_result = NoValidResult
       ELSE /\ best_result # None
            /\ final_result = FinalResult(all_results, best_result)

\* C20: the tracked best outcome is replaced only by a newly recorded outcome
\* of strictly greater confidence; a new outcome whose confidence equals the
\* best's leaves the earlier one in place.
BestReplacedOnlyByGreater ==
    /\ [][ (best_result # None /\ best_result' # best_result)
           => /\ node = "validation"
              /\ best_result' = all_results'[Len(all_results')]
              /\ best_result'.confidence > best_result.confidence ]_vars
    /\ [][ ( /\ node = "validation"
             /\ best_result # None
             /\ all_results'[Len(all_results')].confidence = best_result.confidence )
           => best_result' = best_result ]_vars

\* two evaluated iterations of equal confidence; the first is the best
BestReplacedOnlyByGreater_Witness ==
    /\ Len(all_results) = 2
    /\ all_results[1].confidence = all_results[2].confidence
    /\ "has_error" \notin DOMAIN all_results[1]
    /\ "has_error" \notin DOMAIN all_results[2]
    /\ best_result = all_results[1]

\* C21: after every recorded outcome the tracked best outcome is the recorded
\* outcome of highest confidence among all outcomes recorded so far, the
\* earliest one on ties, whichever path recorded them.
BestIsFirstMaximum ==
    all_results # <<>>
    => /\ best_result # None
       /\ \E i \in DOMAIN all_results :
             /\ best_result = all_results[i]
             /\ \A j \in DOMAIN all_results :
                   /\ all_results[j].confidence <= all_results[i].confidence
                   /\ j < i => all_results[j].confidence < all_results[i].confidence

\* C22 as stated: when no best outcome exists yet, the first outcome recorded
\* in the run becomes the best, also when it is flagged as an error.
FirstOutcomeBecomesBest ==
    [][ (node = "validation" /\ all_results = <<>> /\ best_result = None)
        => best_result' = all_results'[1] ]_vars

\* C22 (amended): when no best outcome exists yet, the first outcome recorded
\* by Validate, by an evaluation or by its fallback, becomes the best, also
\* when it is flagged as an error; the placeholder recorded under the
\* critical-error flag leaves the best absent.
FirstValidatedOutcomeBecomesBest ==
    [][ (node = "validation" /\ all_results = <<>> /\ best_result = None)
        => /\ Len(all_results') = 1
           /\ IF has_critical_error
              THEN best_result' = None
              ELSE best_result' = all_results'[1] ]_vars

\* the first outcome comes from the fallback of Validate, carries the error
\* flag, and is the best
FirstValidatedOutcomeBecomesBest_Witness ==
    /\ Len(all_results) = 1
    /\ "has_error" \in DOMAIN all_results[1]
    /\ all_results[1].confidence = FALLBACK_CONFIDENCE
    /\ best_result = all_results[1]

\* C23: when Retrieve fails with no accumulated items the critical-error flag
\* is set; when it fails with accumulated items they are left unchanged, the
\* flag stays clear and the iteration continues with Group; no step of any
\* other stage changes the flag.
RetrieveFailurePolicy ==
    /\ [][ (node = "news_collection" /\ errors' # errors)
           => IF articles = <<>>
              THEN has_critical_error'
              ELSE /\ articles' = articles
                   /\ ~has_critical_error'
                   /\ iteration' = iteration
                   /\ node' = "news_merge" ]_vars
    /\ [][ has_critical_error' # has_critical_error
           => (node = "news_collection" /\ errors' # errors) ]_vars

\* Retrieve failed in iteration 2 with items accumulated in iteration 1: the
\* items are kept and the flag is clear
RetrieveFailurePolicy_Witness ==
    /\ node = "news_merge"
    /\ iteration = 2
    /\ errors # <<>>
    /\ errors[Len(errors)].node = "news_collection"
    /\ errors[Len(errors)].iteration = 2
    /\ articles # <<>>
    /\ ~has_critical_error

\* C27: once the critical-error flag is set, Group yields no packs and Analyze
\* yields no analysis, neither through its fallback: no error entry is
\* appended, no collaborator is called, and the iteration goes on to the
\* placeholder of Validate.
CriticalSkipsStages ==
    /\ [][ (has_critical_error /\ node = "news_merge")
           => /\ news_packs' = <<>>
              /\ errors' = errors
              /\ faults' = faults
              /\ node' = "sentiment_analysis" ]_vars
    /\ [][ (has_critical_error /\ node = "sentiment_analysis")
           => /\ analysis' = None
              /\ news_packs' = <<>>
              /\ errors' = errors
              /\ faults' = faults
              /\ node' = "validation" ]_vars
    /\ [][ (has_critical_error /\ node = "validation")
           => /\ validation' = critical_validation
              /\ errors' = errors
              /\ faults' = faults
              /\ iteration' = iteration ]_vars

\* a critical error in iteration 2: the analysis of iteration 1 has been
\* replaced by none, and the last error entry is still the one of Retrieve
CriticalSkipsStages_Witness ==
    /\ node = "validation"
    /\ iteration = 2
    /\ has_critical_error
    /\ news_packs = <<>>
    /\ analysis = None
    /\ errors # <<>>
    /\ errors[Len(errors)].node = "news_collection"
    /\ errors[Len(errors)].iteration = 2

\* the last entry of the error log was appended by the given stage in the
\* current iteration
FailedInIteration(name) ==
    /\ errors # <<>>
    /\ errors[Len(errors)].node = name
    /\ errors[Len(errors)].iteration = iteration

\* C24: when Validate fails, the iteration's validation and recorded outcome
\* have the fixed confidence 20 with is_valid false, and the Decide of that
\* iteration never ends the run as a success: it continues to Feedback or ends
\* with the budget exhausted.
ValidateFallbackNeverSucceeds ==
    /\ [][ (node = "validation" /\ errors' # errors)
           => /\ validation'.confidence = FALLBACK_CONFIDENCE
              /\ validation'.is_valid = FALSE
              /\ all_results'[Len(all_results')].confidence = FALLBACK_CONFIDENCE
              /\ all_results'[Len(all_results')].iteration = iteration ]_vars
    /\ [][ (node = "decide" /\ FailedInIteration("validation"))
           => /\ validation.confidence < CONFIDENCE_THRESHOLD
              /\ \/ node' = "feedback"
                 \/ node' = END /\ iteration >= max_iterations ]_vars

\* Validate failed in the last iteration of the budget and the run has ended
ValidateFallbackNeverSucceeds_Witness ==
    /\ node = END
    /\ iteration = 2
    /\ FailedInIteration("validation")
    /\ validation.confidence = FALLBACK_CONFIDENCE
    /\ ~has_critical_error

\* the fallback name each stage writes into its error entry
FallbackName ==
    [ keyword_generation |-> "default_keywords",
      news_collection |-> "keep_existing_articles",
      news_merge |-> "simple_news_packs",
      sentiment_analysis |-> "neutral_analysis",
      validation |-> "low_confidence",
      feedback |-> "basic_context" ]

\* the step shows the result of a stage's fallback, or a collaborator raised
FallbackTaken ==
    \/ faults' > faults
    \/ node = "keyword_generation" /\ keywords' = default_keywords
    \/ /\ node = "news_merge" /\ ~has_critical_error
       /\ \A i \in DOMAIN news_packs' : news_packs'[i].event_type = "general"
    \/ node = "sentiment_analysis" /\ analysis' # None /\ analysis' \notin AnalysisChoices
    \/ node = "validation" /\ ~has_critical_error /\ "has_error" \in DOMAIN all_results'[Len(all_results')]
    \/ node = "feedback" /\ "has_error" \in DOMAIN iteration_timestamps'[Len(iteration_timestamps')]

\* C25: every fallback taken by a stage appends exactly one entry to the error
\* log, carrying the stage name, the current iteration number, an error
\* description and the fallback name; every step leaves the earlier entries of
\* the log in place, unchanged and in order.
ErrorLogAppendOnly ==
    /\ [][ /\ Len(errors') \in {Len(errors), Len(errors) + 1}
           /\ SubSeq(errors', 1, Len(errors)) = errors ]_vars
    /\ [][ FallbackTaken => Len(errors') = Len(errors) + 1 ]_vars
    /\ [][ Len(errors') = Len(errors) + 1
           => /\ node \in DOMAIN FallbackName
              /\ DOMAIN errors'[Len(errors')] = {"node", "iteration", "error", "fallback"}
              /\ errors'[Len(errors')].node = node
              /\ errors'[Len(errors')].iteration = iteration
              /\ errors'[Len(errors')].fallback = FallbackName[node] ]_vars

\* a run of two iterations ended with entries of both iterations in the log
ErrorLogAppendOnly_Witness ==
    /\ node = END
    /\ Len(errors) >= 3
    /\ errors[1].iteration = 1
    /\ errors[Len(errors)].iteration = 2
    /\ errors[Len(errors)].node = "validation"

\* C26 as stated: when Group fails, its fallback builds one single-item pack
\* for each accumulated item, pack i holding item index i, so that there are
\* as many fallback packs as accumulated items.
FallbackPackPerItem ==
    [][ (node = "news_merge" /\ errors' # errors)
        => /\ Len(news_packs') = Len(articles)
           /\ \A i \in DOMAIN news_packs' :
                 news_packs'[i].article_indices = <<i - 1>> ]_vars

\* C26 (amended): when Group fails, its fallback builds one single-item pack
\* for each of the first five accumulated items, pack i holding item index i
\* (counted from 0), so that there are min(5, number of items) fallback packs.
FallbackPackPerLeadingItem ==
    [][ (node = "news_merge" /\ errors' # errors)
        => /\ Len(news_packs') = (IF Len(articles) < 5 THEN Len(articles) ELSE 5)
           /\ \A i \in DOMAIN news_packs' :
                 /\ news_packs'[i].article_indices = <<i - 1>>
                 /\ news_packs'[i].event_type = "general" ]_vars

\* Group failed with more than five items accumulated: five packs
FallbackPackPerLeadingItem_Witness ==
    /\ node = "sentiment_analysis"
    /\ FailedInIteration("news_merge")
    /\ Len(articles) > 5
    /\ Len(news_packs) = 5
    /\ news_packs[5].article_indices = <<4>>

\* C28: a run constructed with max_iterations < 1 is rejected at construction
\* time: no stage ever executes with such a budget.
BudgetBelowOneRejected ==
    (node # "keyword_generation" \/ keywords # <<>> \/ all_results # <<>>)
    => max_iterations >= 1

\* the one-note list of a rule that applies, the empty list otherwise
NoteIf(applies, text) == IF applies THEN << [text |-> text] >> ELSE <<>>

\* C29: the deficiency list of the context built by Feedback is, in this
\* order: every validation note verbatim; the source-quality note iff
\* confidence < 40; the retrieval-breadth note iff the item count < 10; the
\* missing-evidence note iff an analysis is present and has no evidence
\* entries; each rule applies independently of the others.
DeficienciesInOrder ==
    [][ (node = "feedback" /\ errors' = errors)
        => iteration_contexts'[Len(iteration_contexts')].deficiencies
           = validation.validation_notes
             \o NoteIf(validation.confidence < 40, "source quality very low")
             \o NoteIf(Len(articles) < 10, "too few articles")
             \o NoteIf(analysis # None /\ Len(analysis.evidences) = 0, "evidence missing") ]_vars

\* two validation notes followed by all three rule notes, in order
DeficienciesInOrder_Witness ==
    /\ node = "keyword_generation"
    /\ errors = <<>>
    /\ Len(iteration_contexts) = 1
    /\ Len(validation.validation_notes) = 2
    /\ Len(iteration_contexts[1].deficiencies) = 5
    /\ iteration_contexts[1].deficiencies[3].text = "source quality very low"
    /\ iteration_contexts[1].deficiencies[5].text = "evidence missing"

StageSuccession ==
    { <<"keyword_generation", "news_collection">>,
      <<"news_collection", "news_merge">>,
      <<"news_merge", "sentiment_analysis">>,
      <<"sentiment_analysis", "validation">>,
      <<"validation", "decide">>,
      <<"decide", "feedback">>,
      <<"decide", END>>,
      <<"feedback", "keyword_generation">> }

\* C31: within an iteration the stages run in the order TermGen, Retrieve,
\* Group, Analyze, Validate, Decide, each once: every step of a stage hands
\* over to the next stage, the iteration number changes only in the step from
\* Feedback to TermGen, Decide is reached only from Validate and TermGen only
\* from Feedback.
StagesRunInOrder ==
    /\ [][ node # END => (node' # node /\ <<node, node'>> \in StageSuccession) ]_vars
    /\ [][ iteration' # iteration
           => (node = "feedback" /\ node' = "keyword_generation"
               /\ iteration' = iteration + 1) ]_vars
    /\ [][ node = "feedback" => iteration' = iteration + 1 ]_vars
    /\ [][ node = END => node' = END ]_vars

\* the TermGen of a second iteration is about to start, after one Feedback
StagesRunInOrder_Witness ==
    /\ node = "keyword_generation"
    /\ iteration = 2
    /\ Len(all_results) = 1
    /\ Len(iteration_contexts) = 1

\* the list either stays as it is or gains one element at its end
StaysOrGainsOne(old, new) ==
    \/ new = old
    \/ /\ Len(new) = Len(old) + 1
       /\ \A k \in DOMAIN old : new[k] = old[k]

\* C32: the outcome history and the list of feedback contexts are append-only:
\* in every step each of them stays the same or gains one element at its end,
\* so that a recorded outcome or context is never modified or removed.
HistoryAppendOnly ==
    [][ /\ StaysOrGainsOne(all_results, all_results')
        /\ StaysOrGainsOne(iteration_contexts, iteration_contexts') ]_vars

\* a run of two iterations has ended: two outcomes and one context, in order
HistoryAppendOnly_Witness ==
    /\ node = END
    /\ Len(all_results) = 2
    /\ all_results[1].iteration = 1
    /\ all_results[2].iteration = 2
    /\ Len(iteration_contexts) = 1
    /\ iteration_contexts[1].iteration = 1

\* save_iteration_history has written a history (it did not raise)
Persisted ==
    /\ history_data # Pending
    /\ history_data # None
    /\ history_data # Raised("AttributeError")

\* C33: the persisted history of a non-empty outcome history has
\* total_iterations equal to the number of outcomes, confidence_trend and
\* article_count_trend listing the value of each outcome in order,
\* confidence_improvement and article_increase equal to the last value minus
\* the first, and improved true exactly when confidence_improvement > 0.
PersistedHistorySummary ==
    (Persisted /\ all_results # <<>>)
    => /\ history_data.total_iterations = Len(all_results)
       /\ history_data.iterations = all_results
       /\ DOMAIN history_data.summary.confidence_trend = DOMAIN all_results
       /\ DOMAIN history_data.summary.article_count_trend = DOMAIN all_results
       /\ \A k \in DOMAIN all_results :
             /\ history_data.summary.confidence_trend[k] = all_results[k].confidence
             /\ history_data.summary.article_count_trend[k] = all_results[k].article_count
       /\ history_data.summary.improvement_metrics.confidence_improvement
             = all_results[Len(all_results)].confidence - all_results[1].confidence
       /\ history_data.summary.improvement_metrics.article_increase
             = all_results[Len(all_results)].article_count - all_results[1].article_count
       /\ history_data.summary.improvement_metrics.improved
             <=> (all_results[Len(all_results)].confidence > all_results[1].confidence)

\* a persisted history of two outcomes of equal confidence: not improved,
\* although the article count grew
PersistedHistorySummary_Witness ==
    /\ Persisted
    /\ Len(all_results) = 2
    /\ all_results[1].confidence = all_results[2].confidence
    /\ all_results[1].article_count < all_results[2].article_count
    /\ history_data.summary.improvement_metrics.confidence_improvement = 0
    /\ ~history_data.summary.improvement_metrics.improved
    /\ history_data.summary.improvement_metrics.article_increase > 0

\* C34: at every Decide the is_valid flag of the current validation equals
\* (confidence >= threshold), whether the validation comes from the evaluator,
\* from the fallback of Validate or from the critical-error path; the run ends
\* by the success rule exactly when is_valid is true and no critical error is
\* flagged.
IsValidMatchesThreshold ==
    /\ [][ node = "validation"
           => (validation'.is_valid <=> validation'.confidence >= CONFIDENCE_THRESHOLD) ]_vars
    /\ [][ node = "decide"
           => /\ validation.is_valid <=> validation.confidence >= CONFIDENCE_THRESHOLD
              /\ (validation.is_valid /\ ~has_critical_error)
                 <=> ( /\ node' = END
                       /\ ~has_critical_error
                       /\ validation.confidence >= CONFIDENCE_THRESHOLD ) ]_vars

\* the run has ended by the success rule in its first iteration
IsValidMatchesThreshold_Witness ==
    /\ node = END
    /\ iteration = 1
    /\ max_iterations > 1
    /\ validation.is_valid
    /\ validation.confidence >= CONFIDENCE_THRESHOLD
    /\ ~has_critical_error

\* C35: at the end of a run that has a best outcome, the best_iteration of the
\* persisted history summary names the same iteration and confidence as the
\* best_result of the tracker, from which the final prediction is built.
SummaryBestIsTrackerBest ==
    (Persisted /\ best_result # None)
    => /\ history_data.summary.best_iteration.iteration = best_result.iteration
       /\ history_data.summary.best_iteration.confidence = best_result.confidence
       /\ final_result.best_iteration = best_result.iteration

\* C36: whenever Decide is evaluated, the number of recorded outcomes equals
\* the current iteration number and the k-th outcome carries iteration number
\* k, while the feedback contexts and the iteration timestamps both number
\* iteration - 1.
CountsAtDecide ==
    node = "decide"
    => /\ Len(all_results) = iteration
       /\ \A k \in DOMAIN all_results : all_results[k].iteration = k
       /\ Len(iteration_contexts) = iteration - 1
       /\ Len(iteration_timestamps) = iteration - 1

\* Decide of the second iteration: two outcomes, one context, one timestamp
CountsAtDecide_Witness ==
    /\ node = "decide"
    /\ iteration = 2
    /\ Len(all_results) = 2
    /\ Len(iteration_contexts) = 1
    /\ Len(iteration_timestamps) = 1
    /\ iteration_timestamps[1].iteration = 1

\* the outcome was recorded by the critical-error path of Validate
FromCriticalPath(result) ==
    /\ result.analysis = None
    /\ result.confidence = 0
    /\ "has_error" \in DOMAIN result

\* C37: in every reachable state the tracked best outcome is either absent or
\* identical to one of the recorded outcomes, with an iteration number not
\* greater than the current iteration; it is absent only while no outcome has
\* been recorded or all recorded outcomes come from the critical-error path.
BestIsRecordedOutcome ==
    IF best_result = None
    THEN \A i \in DOMAIN all_results : FromCriticalPath(all_results[i])
    ELSE /\ \E i \in DOMAIN all_results : all_results[i] = best_result
         /\ best_result.iteration <= iteration
         /\ ~FromCriticalPath(best_result)

\* the best of iteration 1 is kept after iteration 2 ended in a critical error
BestIsRecordedOutcome_Witness ==
    /\ Len(all_results) = 2
    /\ has_critical_error
    /\ FromCriticalPath(all_results[2])
    /\ best_result = all_results[1]
    /\ iteration = 2

\* C38: the accumulated articles only grow by appending: after every step the
\* earlier collection is a prefix of the later one (so the collection at the
\* end of iteration k is a prefix of the one at the end of iteration k+1); the
\* article counts recorded in the outcome history are non-decreasing and the
\* article_increase of a persisted history is never negative.
ArticlesOnlyGrow ==
    /\ [][ /\ Len(articles) <= Len(articles')
           /\ \A k \in DOMAIN articles : articles'[k] = articles[k] ]_vars
    /\ [](\A i, j \in DOMAIN all_results :
             i <= j => all_results[i].article_count <= all_results[j].article_count)
    /\ [](Persisted => history_data.summary.improvement_metrics.article_increase >= 0)

\* a persisted history of two iterations, the second with more articles
ArticlesOnlyGrow_Witness ==
    /\ Persisted
    /\ Len(all_results) = 2
    /\ all_results[1].article_count > 0
    /\ all_results[2].article_count > all_results[1].article_count
    /\ Len(articles) = all_results[2].article_count
    /\ history_data.summary.improvement_metrics.article_increase > 0

\* C39: the critical-error flag is never cleared once set; in every state in
\* which it is set the accumulated articles are empty, and every outcome
\* recorded so far, those of the earlier iterations included, has an article
\* count of 0.
CriticalFlagIsSticky ==
    /\ [][ has_critical_error => has_critical_error' ]_vars
    /\ [](has_critical_error => articles = <<>>)
    /\ [](has_critical_error
            => \A i \in DOMAIN all_results : all_results[i].article_count = 0)

\* a run ended by a critical error in iteration 2, after an iteration 1 that
\* retrieved nothing
CriticalFlagIsSticky_Witness ==
    /\ node = END
    /\ has_critical_error
    /\ iteration = 2
    /\ Len(all_results) = 2
    /\ all_results[1].article_count = 0
    /\ ~FromCriticalPath(all_results[1])
    /\ articles = <<>>

\* Retrieve has succeeded in this iteration and nothing is accumulated
NothingRetrieved == articles = <<>> /\ ~has_critical_error

\* the step appends one error entry, written by the given stage
AppendsEntryOf(name) ==
    /\ Len(errors') = Len(errors) + 1
    /\ errors'[Len(errors')].node = name
    /\ errors'[Len(errors')].iteration = iteration

\* C40: when Retrieve succeeds but the accumulated articles are still empty,
\* no critical error is flagged; Group falls back to zero packs and Analyze to
\* the neutral result, each appending one error entry; Validate, when it
\* succeeds, scores the iteration 18 (0*40 + 0.6*30 + 0*20 + 0); and Decide
\* continues to Feedback while budget remains.
EmptyRetrievalScoresEighteen ==
    /\ [][ (node = "news_collection" /\ errors' = errors /\ articles' = <<>>)
           => ~has_critical_error' ]_vars
    /\ [][ (node = "news_merge" /\ NothingRetrieved)
           => (news_packs' = <<>> /\ AppendsEntryOf("news_merge")) ]_vars
    /\ [][ (node = "sentiment_analysis" /\ NothingRetrieved)
           => /\ analysis' # None
              /\ analysis'.overall_sentiment = 0
              /\ analysis'.direction = "Hold"
              /\ AppendsEntryOf("sentiment_analysis") ]_vars
    /\ [][ (node = "validation" /\ NothingRetrieved /\ errors' = errors)
           => /\ validation'.confidence = 18
              /\ ~validation'.is_valid
              /\ all_results'[Len(all_results')].confidence = 18
              /\ all_results'[Len(all_results')].article_count = 0
              /\ all_results'[Len(all_results')].news_pack_count = 0 ]_vars
    /\ [][ (node = "decide" /\ NothingRetrieved /\ iteration < max_iterations)
           => node' = "feedback" ]_vars

\* an iteration that retrieved nothing was scored 18 and went on to Feedback
EmptyRetrievalScoresEighteen_Witness ==
    /\ node = "feedback"
    /\ NothingRetrieved
    /\ iteration = 1
    /\ Len(errors) = 2
    /\ errors[1].node = "news_merge"
    /\ errors[2].node = "sentiment_analysis"
    /\ validation.confidence = 18
    /\ news_packs = <<>>

====
